---- MODULE Spec2Model ----
(***************************************************************************)
(* Debate orchestration and consensus voting engine (DiogoNeves/ass).      *)
(*                                                                         *)
(* Eight specifications share the variables:                                 *)
(*   - VotingSpec: calculate_scores and check_consensus of src/voting.py,  *)
(*   - SessionSpec: a VotingSystem session (add_votes, get_vote_summary,   *)
(*     get_voting_trends),                                                 *)
(*   - BeliefSpec: the belief-revision decision of personalities/base.py,  *)
(*   - PersonalitySpec: generate_internal_belief and update_beliefs of one  *)
(*     personality (personalities/claude.py),                              *)
(*   - ConstructionSpec: VotingConfig(...) of src/models/voting.py,        *)
(*   - ManagerSpec: the DebateState kept by services/debate_manager.py,    *)
(*   - Spec: the run of DebateApp in src/debate_app.py,                    *)
(*   - RoundSpec: that run with a single round and unrestricted rankings.  *)
(*                                                                         *)
(* A Python dict is a sequence of <<key, value>> pairs in insertion order, *)
(* because max() and sorted() over dict.items() depend on that order.      *)
(* point_threshold is a float in [0,1]; it is modelled as the rational     *)
(* point_threshold / ThresholdDen, and the float comparison                *)
(* top_score >= max_possible_points * point_threshold as the integer       *)
(* comparison top_score * ThresholdDen >= max_possible_points * numerator. *)
(***************************************************************************)
EXTENDS Integers, Sequences, FiniteSets, TLC

\* ------------------------------------------------------------------ bounds
\* participants of a stand-alone VotingSystem
MaxParticipants == 2
\* votes handed to calculate_scores in one call
MaxVotes == 2
\* number of configured ranks 1..K
MaxRanks == 2
\* largest point value of a rank
MaxPoints == 2
\* point_threshold ranges over 0/ThresholdDen .. ThresholdDen/ThresholdDen
ThresholdDen == 2
\* evidence_strength ranges over -MaxEvidence .. MaxEvidence
MaxEvidence == 100
\* participants of a debate run (the first NumParticipants personalities)
NumParticipants == 3
\* largest configured max_iterations
MaxIterations == 2
\* vote sets handed to add_votes in one VotingSystem session
MaxRounds == 2
\* update_beliefs calls of one personality (iterations 1..MaxUpdates)
MaxUpdates == 2

\* ------------------------------------------------------- program constants
None == "None"

\* DebateApp._create_personalities: names in dict insertion order
PersonalityNames ==
  <<"Claude Optimist", "Claude Skeptic", "GPT Visionary", "GPT Critic">>

\* VotingConfig (models/voting.py): min_iterations ge=1; max_iterations
\* ge=1, le=50
MinIterationsFloor == 1
MaxIterationsFloor == 1
MaxIterationsCeiling == 50

\* PersonalityConfig: belief_persistence and truth_seeking are ge=1, le=10
MinTrait == 1
MaxTrait == 10

VARIABLES
  pc,                   \* position of the run / of the function application
  participants,         \* VotingSystem.participants
  scoring_system,       \* VotingConfig.scoring_system : rank -> points
  point_threshold,      \* VotingConfig.point_threshold (numerator)
  max_possible_points,  \* VotingSystem.max_possible_points
  votes,                \* the list of Vote of the current round / call
  scores,               \* result of calculate_scores
  consensus_reached,    \* first component of check_consensus
  winner,               \* second component of check_consensus
  belief_persistence,   \* PersonalityConfig.belief_persistence
  truth_seeking,        \* PersonalityConfig.truth_seeking
  evidence_strength,    \* argument of _should_update_belief
  should_update,        \* result of _should_update_belief
  mode,                 \* "classic" or "voting" (DebateApp.run_debate)
  max_iterations,       \* DebateConfig.max_iterations
  voting_start_iteration, \* DebateConfig.voting_start_iteration
  save_enabled,         \* DebateConfig.save_enabled
  iteration,            \* run_voting_debate: iteration
  debate_history,       \* run_voting_debate: debate_history
  round_arguments,      \* run_voting_debate: round_arguments
  vote_history,         \* VotingSystem.vote_history
  final_votes,          \* run_voting_debate: final_votes (<<>> is None)
  iterations,           \* the iteration_data records built so far
  debate_data,          \* run_voting_debate: debate_data
  saved_file,           \* content of debates/<filename> (<<>>: no file)
  judge_prompt,         \* what the judge was given (<<>>: not called)
  judge_decision,       \* the judge's decision (<<>>: none yet)
  failure,              \* the exception that left the run ("" : none)
  round_num,            \* run_classic_debate: round_num
  debate_context,       \* run_classic_debate: debate_context
  judge_calls,          \* number of calls of the judge's generate_response
  save_failed,          \* the last save_debate_state call caught an exception
  summary_index,        \* argument of get_vote_summary
  vote_summary,         \* result of get_vote_summary (<<>> is {})
  trends,               \* result of get_voting_trends
  config_args,          \* keyword arguments of VotingConfig(...)
  config_result,        \* "" before the call, then "ok" or "ValidationError"
  debate_state,         \* DebateState.iterations of the DebateManager
  reloaded,             \* DebateState.model_validate of the saved format
  internal_beliefs,     \* LLMPersonality.internal_beliefs (<<>> is {})
  belief_history,       \* LLMPersonality.belief_history
  update_iteration,     \* iteration argument of the last update_beliefs
  update_response,      \* the model's reply to the last update_beliefs
  update_result,        \* what the last update_beliefs returned or raised
  speaker_context       \* run_voting_debate: context of the last speaker

votingVars == <<participants, scoring_system, point_threshold,
                max_possible_points>>

tallyVars == <<votes, scores, consensus_reached, winner>>

beliefVars == <<belief_persistence, truth_seeking, evidence_strength,
                should_update>>

configVars == <<mode, max_iterations, voting_start_iteration, save_enabled>>

loopVars == <<iteration, debate_history, round_arguments, vote_history,
              final_votes, iterations>>

saveVars == <<debate_data, saved_file, save_failed>>

judgeVars == <<judge_prompt, judge_decision, judge_calls>>

classicVars == <<round_num, debate_context>>

debateVars == <<configVars, loopVars, saveVars, judgeVars, failure,
                classicVars>>

sessionVars == <<summary_index, vote_summary, trends>>

constructionVars == <<config_args, config_result>>

stateVars == <<debate_state, reloaded>>

updateVars == <<internal_beliefs, belief_history, update_iteration,
                update_response, update_result>>

speakerVars == <<speaker_context>>

auxVars == <<sessionVars, constructionVars, stateVars, updateVars,
             speakerVars>>

vars == <<pc, votingVars, tallyVars, beliefVars, debateVars, auxVars>>

\* ------------------------------------------------------------ dict helpers
Keys(d) == {d[i][1] : i \in 1..Len(d)}

HasKey(d, k) == \E i \in 1..Len(d) : d[i][1] = k

KeyIndex(d, k) == CHOOSE i \in 1..Len(d) : d[i][1] = k

\* d.get(k, 0)
Get(d, k) == IF HasKey(d, k) THEN d[KeyIndex(d, k)][2] ELSE 0

\* scores[k] += v on a defaultdict(int): a new key is appended
DictAdd(d, k, v) ==
  IF HasKey(d, k)
    THEN [d EXCEPT ![KeyIndex(d, k)] = <<k, d[KeyIndex(d, k)][2] + v>>]
    ELSE Append(d, <<k, v>>)

Range(s) == {s[i] : i \in 1..Len(s)}

\* len(v) == len(set(v))
DuplicateFree(r) == \A i, j \in 1..Len(r) : i # j => r[i] # r[j]

\* ----------------------------------------------------------- VotingSystem
\* Vote (dataclass of voting.py): no validation
Vote(voter, rankings, reasoning, it) ==
  [voter |-> voter, rankings |-> rankings,
   reasoning |-> reasoning, iteration |-> it]

_calculate_max_points(parts, scoring) == Len(parts) * scoring[1]

\* variant: a rank without configured points adds 0 to the agent's total
RECURSIVE ScoreRankingsZeroForUnconfigured(_, _, _, _)
ScoreRankingsZeroForUnconfigured(sc, scoring, rankings, rank) ==
  IF rank > Len(rankings) THEN sc
  ELSE ScoreRankingsZeroForUnconfigured(
         DictAdd(sc, rankings[rank],
                 IF rank \in DOMAIN scoring THEN scoring[rank] ELSE 0),
         scoring, rankings, rank + 1)

\* inner loop of calculate_scores: enumerate(vote.rankings, 1)
RECURSIVE ScoreRankings(_, _, _, _)
ScoreRankings(sc, scoring, rankings, rank) ==
  IF rank > Len(rankings) THEN sc
  ELSE ScoreRankings(
         IF rank \in DOMAIN scoring
           THEN DictAdd(sc, rankings[rank], scoring[rank])
           ELSE sc,
         scoring, rankings, rank + 1)

\* outer loop of calculate_scores: for vote in votes
RECURSIVE ScoreVotes(_, _, _, _)
ScoreVotes(sc, scoring, vs, i) ==
  IF i > Len(vs) THEN sc
  ELSE ScoreVotes(ScoreRankings(sc, scoring, vs[i].rankings, 1),
                  scoring, vs, i + 1)

calculate_scores(scoring, vs) == ScoreVotes(<<>>, scoring, vs, 1)

\* variant: the last maximal item
RECURSIVE MaxItemFromLast(_, _, _)
MaxItemFromLast(d, best, i) ==
  IF i > Len(d) THEN best
  ELSE MaxItemFromLast(d, IF d[i][2] >= best[2] THEN d[i] ELSE best, i + 1)

\* max(scores.items(), key=lambda x: x[1]): the first maximal item
RECURSIVE MaxItemFrom(_, _, _)
MaxItemFrom(d, best, i) ==
  IF i > Len(d) THEN best
  ELSE MaxItemFrom(d, IF d[i][2] > best[2] THEN d[i] ELSE best, i + 1)

MaxItem(d) == MaxItemFrom(d, d[1], 2)

\* variant: the top score must exceed the threshold score
check_consensus_strict(sc, maxpts, threshold) ==
  IF sc = <<>> THEN [reached |-> FALSE, winner |-> None]
  ELSE LET top_participant == MaxItem(sc)
           top_score == top_participant[2]
           reached == top_score * ThresholdDen > maxpts * threshold
       IN [reached |-> reached,
           winner |-> IF reached THEN top_participant[1] ELSE None]

\* variant: no early return for an empty map, the top score defaults to 0
check_consensus_unguarded(sc, maxpts, threshold) ==
  LET top_participant == IF sc = <<>> THEN <<None, 0>> ELSE MaxItem(sc)
      top_score == top_participant[2]
      reached == top_score * ThresholdDen >= maxpts * threshold
  IN [reached |-> reached,
      winner |-> IF reached THEN top_participant[1] ELSE None]

\* variant: consensus when the top score is at most the threshold score
check_consensus_at_most(sc, maxpts, threshold) ==
  IF sc = <<>> THEN [reached |-> FALSE, winner |-> None]
  ELSE LET top_participant == MaxItem(sc)
           top_score == top_participant[2]
           reached == top_score * ThresholdDen <= maxpts * threshold
       IN [reached |-> reached,
           winner |-> IF reached THEN top_participant[1] ELSE None]

check_consensus(sc, maxpts, threshold) ==
  IF sc = <<>> THEN [reached |-> FALSE, winner |-> None]
  ELSE LET top_participant == MaxItem(sc)
           top_score == top_participant[2]
           reached == top_score * ThresholdDen >= maxpts * threshold
       IN [reached |-> reached,
           winner |-> IF reached THEN top_participant[1] ELSE None]

\* ------------------------------------------------------- belief revision
\* variant: evidence equal to the threshold is rejected
_should_update_belief_strict(persistence, seeking, evidence) ==
  LET threshold0 == persistence * 10
      threshold == threshold0 - (seeking * 5)
  IN evidence > threshold

\* variant: truth_seeking is subtracted without the factor 5
_should_update_belief_unscaled(persistence, seeking, evidence) ==
  LET threshold0 == persistence * 10
      threshold == threshold0 - seeking
  IN evidence >= threshold

_should_update_belief(persistence, seeking, evidence) ==
  LET threshold0 == persistence * 10
      threshold == threshold0 - (seeking * 5)
  IN evidence >= threshold

\* ------------------------------------------- inputs of the voting functions
\* scoring tables accepted by VotingConfig.validate_scoring_system
ScoringSystems ==
  UNION {[1..k -> 1..MaxPoints] : k \in 1..MaxRanks}

Thresholds == 0..ThresholdDen

ParticipantLists == {SubSeq(PersonalityNames, 1, MaxParticipants)}

\* the rankings a caller puts into a Vote dataclass: the empty ranking, a
\* single agent, an agent listed twice, and every complete ranking
RankingsOver(parts) ==
  {<<>>}
  \cup {<<a>> : a \in Range(parts)}
  \cup {<<a, a>> : a \in Range(parts)}
  \cup {r \in [1..Len(parts) -> Range(parts)] : DuplicateFree(r)}

IdleBelief ==
  /\ belief_persistence = MinTrait
  /\ truth_seeking = MinTrait
  /\ evidence_strength = 0
  /\ should_update = FALSE

IdleVoting ==
  /\ participants = SubSeq(PersonalityNames, 1, 1)
  /\ scoring_system = [r \in 1..1 |-> 1]
  /\ point_threshold = 0
  /\ max_possible_points = 1
  /\ votes = <<>>
  /\ scores = <<>>
  /\ consensus_reached = FALSE
  /\ winner = None

\* debate_data as initialised at the start of run_voting_debate
NewDebateData ==
  [iterations |-> <<>>, final_consensus |-> <<>>,
   final_judge_decision |-> <<>>]

\* no get_vote_summary / get_voting_trends call has been made
IdleSession ==
  /\ summary_index = 0
  /\ vote_summary = <<>>
  /\ trends = <<>>

\* no VotingConfig is being constructed
IdleConstruction ==
  /\ config_args = <<>>
  /\ config_result = ""

\* no DebateState is kept
IdleState ==
  /\ debate_state = <<>>
  /\ reloaded = <<>>

\* LLMPersonality.__init__: no belief formed, no update requested
IdleUpdate ==
  /\ internal_beliefs = <<>>
  /\ belief_history = <<>>
  /\ update_iteration = 0
  /\ update_response = <<>>
  /\ update_result = ""

IdleDebate ==
  /\ mode = "voting"
  /\ speaker_context = <<>>
  /\ max_iterations = 1
  /\ voting_start_iteration = 0
  /\ save_enabled = FALSE
  /\ iteration = 0
  /\ debate_history = <<>>
  /\ round_arguments = <<>>
  /\ vote_history = <<>>
  /\ final_votes = <<>>
  /\ iterations = <<>>
  /\ debate_data = NewDebateData
  /\ saved_file = <<>>
  /\ judge_prompt = <<>>
  /\ judge_decision = <<>>
  /\ failure = ""
  /\ round_num = 1
  /\ debate_context = <<>>
  /\ judge_calls = 0
  /\ save_failed = FALSE

\* ------------------------- specification of the voting functions (voting.py)
VotingInit ==
  /\ pc = "votes"
  /\ participants \in ParticipantLists
  /\ scoring_system \in ScoringSystems
  /\ point_threshold \in Thresholds
  /\ max_possible_points = _calculate_max_points(participants, scoring_system)
  /\ votes = <<>>
  /\ scores = <<>>
  /\ consensus_reached = FALSE
  /\ winner = None
  /\ IdleBelief
  /\ IdleDebate
  /\ IdleSession
  /\ IdleConstruction
  /\ IdleState
  /\ IdleUpdate

\* a caller builds the list of votes of one round
CastVote ==
  /\ pc = "votes"
  /\ Len(votes) < MaxVotes
  /\ \E r \in RankingsOver(participants) :
       votes' = Append(votes,
                  Vote(participants[(Len(votes) % Len(participants)) + 1],
                       r, "reasoning", 0))
  /\ UNCHANGED <<pc, votingVars, scores, consensus_reached, winner,
                 beliefVars, auxVars, debateVars>>

\* check_consensus computes the score map of the round itself and decides
\* on it
CheckConsensus ==
  /\ pc = "votes"
  /\ LET sc == calculate_scores(scoring_system, votes)
         result == check_consensus(sc, max_possible_points, point_threshold)
     IN /\ scores' = sc
        /\ consensus_reached' = result.reached
        /\ winner' = result.winner
  /\ pc' = "checked"
  /\ UNCHANGED <<votingVars, votes, beliefVars, auxVars, debateVars>>

VotingNext == CastVote \/ CheckConsensus

VotingSpec == VotingInit /\ [][VotingNext]_vars

\* ------------------------ specification of the belief decision (base.py)
BeliefInit ==
  /\ pc = "belief"
  /\ belief_persistence \in MinTrait..MaxTrait
  /\ truth_seeking \in MinTrait..MaxTrait
  /\ evidence_strength = 0
  /\ should_update = FALSE
  /\ IdleVoting
  /\ IdleDebate
  /\ IdleSession
  /\ IdleConstruction
  /\ IdleState
  /\ IdleUpdate

ShouldUpdateBelief ==
  /\ pc = "belief"
  /\ \E e \in (0 - MaxEvidence)..MaxEvidence :
       /\ evidence_strength' = e
       /\ should_update' = _should_update_belief(belief_persistence,
                                                 truth_seeking, e)
  /\ pc' = "decided"
  /\ UNCHANGED <<votingVars, tallyVars, belief_persistence, truth_seeking,
                 debateVars, auxVars>>

BeliefNext == ShouldUpdateBelief

BeliefSpec == BeliefInit /\ [][BeliefNext]_vars

\* ------------ specification of one personality's beliefs (claude.py)
\* belief snapshots the model reports; a snapshot is a dict of text fields
InitialBeliefs ==
  << <<"core_position", "for">>, <<"confidence_level", "7">> >>

RevisedBeliefs == << <<"core_position", "against">> >>

\* the fallback of generate_internal_belief
ErrorBeliefs == << <<"error", "Failed to parse beliefs">> >>

\* replies to the belief prompt: <<>> is text that is not JSON, <<b>> is
\* the JSON object b (possibly the empty object)
BeliefReplies == {<<>>, <<InitialBeliefs>>, << <<>> >>}

\* evidence_strength values the model reports
EvidenceReports == {0, MaxEvidence \div 2, MaxEvidence}

\* replies to the update prompt: text that is not JSON, JSON that is not an
\* object, or an object in which each of the three keys the code reads may
\* be missing (<<>>)
UpdateResponses ==
  {[json |-> j, should_update |-> <<>>, evidence_strength |-> <<>>,
    updated_beliefs |-> <<>>] : j \in {"invalid", "array"}}
  \cup {[json |-> "object", should_update |-> su, evidence_strength |-> ev,
         updated_beliefs |-> ub] :
          su \in {<<>>, <<TRUE>>, <<FALSE>>},
          ev \in {<<>>} \cup {<<e>> : e \in EvidenceReports},
          ub \in {<<>>, <<RevisedBeliefs>>, <<InitialBeliefs>>}}

\* result.get(key, default) on an optional field
GetOr(field, default) == IF field = <<>> THEN default ELSE field[1]

\* variant: the evidence alone decides
UpdateAcceptedEvidenceOnly(result, persistence, seeking) ==
  _should_update_belief(persistence, seeking,
                        GetOr(result.evidence_strength, 0))

\* the condition of the if statement of update_beliefs
UpdateAccepted(result, persistence, seeking) ==
  /\ GetOr(result.should_update, FALSE)
  /\ _should_update_belief(persistence, seeking,
                           GetOr(result.evidence_strength, 0))

\* belief_history.append({...}); the timestamp is not modelled
_save_belief_state(history, beliefs, it) ==
  Append(history, [iteration |-> it, beliefs |-> beliefs])

\* variant: the belief held before the update is saved to the history
update_beliefs_save_first(beliefs, history, persistence, seeking, response, it) ==
  LET same(res) == [internal_beliefs |-> beliefs,
                    belief_history |-> history, result |-> res]
  IN IF response.json = "invalid" THEN same("False")
     ELSE IF response.json # "object" THEN same("AttributeError")
     ELSE IF UpdateAccepted(response, persistence, seeking)
       THEN IF response.updated_beliefs = <<>> THEN same("KeyError")
            ELSE [internal_beliefs |-> response.updated_beliefs[1],
                  belief_history |->
                    _save_belief_state(history, beliefs, it),
                  result |-> "True"]
     ELSE same("False")

\* variant: a reply that is not JSON resets the beliefs to the fallback of
\* generate_internal_belief
update_beliefs_fallback(beliefs, history, persistence, seeking, response, it) ==
  LET same(res) == [internal_beliefs |-> beliefs,
                    belief_history |-> history, result |-> res]
  IN IF response.json = "invalid"
       THEN [internal_beliefs |-> ErrorBeliefs, belief_history |-> history,
             result |-> "False"]
     ELSE IF response.json # "object" THEN same("AttributeError")
     ELSE IF UpdateAccepted(response, persistence, seeking)
       THEN IF response.updated_beliefs = <<>> THEN same("KeyError")
            ELSE LET updated == response.updated_beliefs[1]
                 IN [internal_beliefs |-> updated,
                     belief_history |->
                       _save_belief_state(history, updated, it),
                     result |-> "True"]
     ELSE same("False")

\* update_beliefs from json.loads on: the new internal_beliefs and
\* belief_history and what the call returned or raised
update_beliefs(beliefs, history, persistence, seeking, response, it) ==
  LET same(res) == [internal_beliefs |-> beliefs,
                    belief_history |-> history, result |-> res]
  IN IF response.json = "invalid" THEN same("False")
     ELSE IF response.json # "object" THEN same("AttributeError")
     ELSE IF UpdateAccepted(response, persistence, seeking)
       THEN IF response.updated_beliefs = <<>> THEN same("KeyError")
            ELSE LET updated == response.updated_beliefs[1]
                 IN [internal_beliefs |-> updated,
                     belief_history |->
                       _save_belief_state(history, updated, it),
                     result |-> "True"]
     ELSE same("False")

PersonalityInit ==
  /\ pc = "personality"
  /\ belief_persistence \in MinTrait..MaxTrait
  /\ truth_seeking \in MinTrait..MaxTrait
  /\ evidence_strength = 0
  /\ should_update = FALSE
  /\ IdleVoting
  /\ IdleDebate
  /\ IdleSession
  /\ IdleConstruction
  /\ IdleState
  /\ IdleUpdate

\* generate_internal_belief in iteration 0
GenerateInternalBelief ==
  /\ pc = "personality"
  /\ \E reply \in BeliefReplies :
       IF reply = <<>>
         THEN /\ internal_beliefs' = ErrorBeliefs
              /\ belief_history' = belief_history
         ELSE /\ internal_beliefs' = reply[1]
              /\ belief_history' =
                   _save_belief_state(belief_history, reply[1], 0)
  /\ pc' = "believing"
  /\ UNCHANGED <<votingVars, tallyVars, beliefVars, debateVars, sessionVars,
                 constructionVars, stateVars, speakerVars, update_iteration,
                 update_response, update_result>>

\* update_beliefs(context, iteration) in an iteration > 0, called when
\* internal_beliefs is not empty
UpdateBeliefs ==
  /\ pc \in {"believing", "updated"}
  /\ internal_beliefs # <<>>
  /\ update_iteration < MaxUpdates
  /\ \E response \in UpdateResponses :
       LET it == update_iteration + 1
           out == update_beliefs(internal_beliefs, belief_history,
                                 belief_persistence, truth_seeking,
                                 response, it)
       IN /\ internal_beliefs' = out.internal_beliefs
          /\ belief_history' = out.belief_history
          /\ update_iteration' = it
          /\ update_response' = <<response>>
          /\ update_result' = out.result
          /\ pc' = IF out.result \in {"True", "False"}
                     THEN "updated" ELSE "raised"
  /\ UNCHANGED <<votingVars, tallyVars, beliefVars, debateVars, sessionVars,
                 constructionVars, stateVars, speakerVars>>

PersonalityNext == GenerateInternalBelief \/ UpdateBeliefs

PersonalitySpec == PersonalityInit /\ [][PersonalityNext]_vars

\* --------------------------------------------- VotingSystem.get_vote_summary
\* sorted(scores.items(), key=lambda x: x[1], reverse=True): a stable sort,
\* items of equal score keep their order
\* variant: an item is placed before the items of equal score
RECURSIVE InsertSortedBeforeEqual(_, _)
InsertSortedBeforeEqual(sorted, item) ==
  IF sorted = <<>> THEN <<item>>
  ELSE IF item[2] >= Head(sorted)[2] THEN <<item>> \o sorted
       ELSE <<Head(sorted)>> \o InsertSortedBeforeEqual(Tail(sorted), item)

RECURSIVE InsertSorted(_, _)
InsertSorted(sorted, item) ==
  IF sorted = <<>> THEN <<item>>
  ELSE IF item[2] > Head(sorted)[2] THEN <<item>> \o sorted
       ELSE <<Head(sorted)>> \o InsertSorted(Tail(sorted), item)

RECURSIVE SortedByScore(_)
SortedByScore(d) ==
  IF d = <<>> THEN <<>>
  ELSE InsertSorted(SortedByScore(SubSeq(d, 1, Len(d) - 1)), d[Len(d)])

IndividualVotes(vs) ==
  [i \in 1..Len(vs) |->
     [voter |-> vs[i].voter, rankings |-> vs[i].rankings,
      reasoning |-> vs[i].reasoning]]

\* variant: the summary of the latest recorded round, whatever the index
get_vote_summary_latest(history, scoring, maxpts, threshold, index) ==
  IF index >= Len(history) THEN <<>>
  ELSE LET vs == history[Len(history)]
           sc == calculate_scores(scoring, vs)
           result == check_consensus(sc, maxpts, threshold)
       IN << [iteration |-> index,
              scores |-> sc,
              sorted_rankings |-> SortedByScore(sc),
              consensus_reached |-> result.reached,
              winner |-> result.winner,
              threshold_score |-> maxpts * threshold,
              individual_votes |-> IndividualVotes(vs)] >>

\* the summary is <<>> for the empty dict {} and <<summary>> otherwise;
\* index is the 0-based Python index
get_vote_summary(history, scoring, maxpts, threshold, index) ==
  IF index >= Len(history) THEN <<>>
  ELSE LET vs == history[index + 1]
           sc == calculate_scores(scoring, vs)
           result == check_consensus(sc, maxpts, threshold)
       IN << [iteration |-> index,
              scores |-> sc,
              sorted_rankings |-> SortedByScore(sc),
              consensus_reached |-> result.reached,
              winner |-> result.winner,
              threshold_score |-> maxpts * threshold,
              individual_votes |-> IndividualVotes(vs)] >>

\* -------------------------------------------- VotingSystem.get_voting_trends
\* trends[participant].append(v) on a defaultdict(list)
TrendAppend(tr, participant, v) ==
  IF HasKey(tr, participant)
    THEN [tr EXCEPT ![KeyIndex(tr, participant)] =
                       <<participant, Append(tr[KeyIndex(tr, participant)][2], v)>>]
    ELSE Append(tr, <<participant, <<v>> >>)

\* variant: only the participants of the score map get an element
RECURSIVE TrendParticipantsScoredOnly(_, _, _, _)
TrendParticipantsScoredOnly(tr, sc, parts, j) ==
  IF j > Len(parts) THEN tr
  ELSE TrendParticipantsScoredOnly(
         IF HasKey(sc, parts[j])
           THEN TrendAppend(tr, parts[j], Get(sc, parts[j]))
           ELSE tr,
         sc, parts, j + 1)

\* for participant in self.participants
RECURSIVE TrendParticipants(_, _, _, _)
TrendParticipants(tr, sc, parts, j) ==
  IF j > Len(parts) THEN tr
  ELSE TrendParticipants(TrendAppend(tr, parts[j], Get(sc, parts[j])),
                         sc, parts, j + 1)

\* for iteration_votes in self.vote_history
RECURSIVE TrendRounds(_, _, _, _, _)
TrendRounds(tr, history, parts, scoring, k) ==
  IF k > Len(history) THEN tr
  ELSE TrendRounds(
         TrendParticipants(tr, calculate_scores(scoring, history[k]), parts, 1),
         history, parts, scoring, k + 1)

get_voting_trends(history, parts, scoring) ==
  TrendRounds(<<>>, history, parts, scoring, 1)

\* ------------------------- specification of a VotingSystem session (voting.py)
\* scoring tables of the session: every rank worth one point, and K..1
SessionScoringSystems ==
  {[r \in 1..MaxRanks |-> 1], [r \in 1..MaxRanks |-> MaxRanks + 1 - r]}

Reverse(seq) == [i \in 1..Len(seq) |-> seq[Len(seq) + 1 - i]]

\* rankings of the votes of a session: empty, a single agent, the
\* participant order and its reverse
SessionRankings(parts) ==
  {<<>>} \cup {<<a>> : a \in Range(parts)} \cup {parts, Reverse(parts)}

\* the vote sets a caller hands to add_votes: no vote, or one vote that
\* carries any iteration number
SessionVoteLists(parts) ==
  {<<>>} \cup
  {<<Vote(parts[1], r, "reasoning", it)>> :
     r \in SessionRankings(parts), it \in 0..(MaxRounds - 1)}

SessionInit ==
  /\ pc = "session"
  /\ participants \in ParticipantLists
  /\ scoring_system \in SessionScoringSystems
  /\ point_threshold \in Thresholds
  /\ max_possible_points = _calculate_max_points(participants, scoring_system)
  /\ votes = <<>>
  /\ scores = <<>>
  /\ consensus_reached = FALSE
  /\ winner = None
  /\ IdleBelief
  /\ IdleDebate
  /\ IdleSession
  /\ IdleConstruction
  /\ IdleState
  /\ IdleUpdate

\* add_votes(votes)
SessionAddVotes ==
  /\ pc = "session"
  /\ Len(vote_history) < MaxRounds
  /\ \E vs \in SessionVoteLists(participants) :
       vote_history' = Append(vote_history, vs)
  /\ UNCHANGED <<pc, votingVars, tallyVars, beliefVars, auxVars, configVars,
                 iteration, debate_history, round_arguments, final_votes,
                 iterations, saveVars, judgeVars, failure, classicVars>>

\* get_vote_summary(iteration), for a recorded or an unrecorded index
GetVoteSummary ==
  /\ pc = "session"
  /\ \E index \in 0..MaxRounds :
       /\ summary_index' = index
       /\ vote_summary' = get_vote_summary(vote_history, scoring_system,
                                           max_possible_points,
                                           point_threshold, index)
  /\ pc' = "summary"
  /\ UNCHANGED <<votingVars, tallyVars, beliefVars, debateVars, trends,
                 constructionVars, stateVars, updateVars, speakerVars>>

\* get_voting_trends()
GetVotingTrends ==
  /\ pc = "session"
  /\ trends' = get_voting_trends(vote_history, participants, scoring_system)
  /\ pc' = "trends"
  /\ UNCHANGED <<votingVars, tallyVars, beliefVars, debateVars, summary_index,
                 vote_summary, constructionVars, stateVars, updateVars,
                 speakerVars>>

SessionNext == SessionAddVotes \/ GetVoteSummary \/ GetVotingTrends

SessionSpec == SessionInit /\ [][SessionNext]_vars

\* ----------------------------------------- VotingConfig of models/voting.py
\* a scoring table is a function from its keys to points
\* validate_scoring_system: not empty, keys exactly 1..len, values positive
validate_scoring_system(v) ==
  /\ DOMAIN v # {}
  /\ DOMAIN v = 1..Cardinality(DOMAIN v)
  /\ \A rank \in DOMAIN v : v[rank] > 0

\* Field constraints of point_threshold, min_iterations and max_iterations
VotingConfigFields(a) ==
  /\ a.point_threshold >= 0
  /\ a.point_threshold <= ThresholdDen
  /\ a.min_iterations >= MinIterationsFloor
  /\ a.max_iterations >= MaxIterationsFloor
  /\ a.max_iterations <= MaxIterationsCeiling

\* variant: the model validator accepts every pair
validate_iterations_any(a) == TRUE

\* validate_iterations (mode='after')
validate_iterations(a) == a.min_iterations <= a.max_iterations

\* VotingConfig(**a): "ok" or the ValidationError of the first failing stage
VotingConfig(a) ==
  IF ~(VotingConfigFields(a) /\ validate_scoring_system(a.scoring_system))
    THEN "ValidationError"
  ELSE IF ~validate_iterations(a) THEN "ValidationError"
  ELSE "ok"

\* the keyword arguments a caller can pass: tables over the keys 0..K+1 with
\* points 0 and 1, thresholds from below 0 to above 1, iteration counts
\* around the limits of the fields
ScoringTables ==
  UNION {[S -> 0..1] : S \in SUBSET (0..(MaxRanks + 1))}

ThresholdArgs == (0 - 1)..(ThresholdDen + 1)

MinIterationArgs == 0..(MaxIterations + 1)

MaxIterationArgs ==
  (0..(MaxIterations + 1))
  \cup {MaxIterationsCeiling, MaxIterationsCeiling + 1}

ConstructionInit ==
  /\ pc = "construct"
  /\ \E t \in ScoringTables, th \in ThresholdArgs,
        mn \in MinIterationArgs, mx \in MaxIterationArgs :
       config_args = <<[scoring_system |-> t, point_threshold |-> th,
                        min_iterations |-> mn, max_iterations |-> mx]>>
  /\ config_result = ""
  /\ IdleVoting
  /\ IdleBelief
  /\ IdleDebate
  /\ IdleSession
  /\ IdleState
  /\ IdleUpdate

\* DebateApp.__init__: voting_config = VotingConfig(...)
ConstructVotingConfig ==
  /\ pc = "construct"
  /\ config_result' = VotingConfig(config_args[1])
  /\ pc' = "constructed"
  /\ UNCHANGED <<votingVars, tallyVars, beliefVars, debateVars, sessionVars,
                 config_args, stateVars, updateVars, speakerVars>>

ConstructionNext == ConstructVotingConfig

ConstructionSpec == ConstructionInit /\ [][ConstructionNext]_vars

\* ------------------------------- DebateIteration, DebateState, DebateManager
\* an optional value is <<>> for None and <<value>> otherwise; a dict of
\* arguments is a sequence of <<name, text>> pairs
\* DebateIteration(...): field constraints, validate_arguments and
\* validate_voting_consistency
ValidDebateIteration(r) ==
  /\ r.iteration_number >= 0
  /\ r.question # ""
  /\ r.arguments # <<>>
  /\ \A i \in 1..Len(r.arguments) :
       r.arguments[i][1] # "" /\ r.arguments[i][2] # ""
  /\ ~(r.consensus_reached /\ r.winner = <<>>)
  /\ ~(r.votes # <<>> /\ r.votes[1] # <<>>
        /\ Len(r.votes[1]) # Len(r.arguments))

\* DebateManager.record_iteration: the DebateIteration built from the call
DebateIteration(it, question, arguments, vs, reached, win) ==
  [iteration_number |-> it, question |-> question, arguments |-> arguments,
   votes |-> IF vs = <<>> \/ vs[1] = <<>> THEN <<>> ELSE vs,
   consensus_reached |-> reached, winner |-> win]

\* DebateState.to_save_format: the dict of one iteration (its timestamp is
\* left out)
SavedIteration(r) ==
  [iteration |-> r.iteration_number, arguments |-> r.arguments,
   votes |-> r.votes, consensus_reached |-> r.consensus_reached,
   winner |-> r.winner]

to_save_format(its) == [i \in 1..Len(its) |-> SavedIteration(its[i])]

\* fields of DebateIteration declared with Field(...): they are required
RequiredIterationFields == {"iteration_number", "question", "arguments"}

\* DebateIteration.model_validate(d) for a dict d: <<>> is a ValidationError
ParseDebateIteration(d) ==
  IF ~(RequiredIterationFields \subseteq DOMAIN d) THEN <<>>
  ELSE LET r == [iteration_number |-> d.iteration_number,
                 question |-> d.question,
                 arguments |-> d.arguments,
                 votes |-> IF "votes" \in DOMAIN d THEN d.votes ELSE <<>>,
                 consensus_reached |->
                   IF "consensus_reached" \in DOMAIN d
                     THEN d.consensus_reached ELSE FALSE,
                 winner |-> IF "winner" \in DOMAIN d THEN d.winner ELSE <<>>]
       IN IF ValidDebateIteration(r) THEN <<r>> ELSE <<>>

\* DebateState.model_validate(data), as FileManager.load_debate calls it on
\* the loaded dict: the iterations, or a ValidationError
ReloadDebateState(saved) ==
  IF \A i \in 1..Len(saved) : ParseDebateIteration(saved[i]) # <<>>
    THEN [ok |-> TRUE,
          iterations |-> [i \in 1..Len(saved) |->
                            ParseDebateIteration(saved[i])[1]]]
    ELSE [ok |-> FALSE, iterations |-> <<>>]

\* arguments of a record_iteration call
FullArguments(parts) == [i \in 1..Len(parts) |-> <<parts[i], "argument">>]

FullVotes(parts, it) ==
  [i \in 1..Len(parts) |->
     [voter |-> parts[i], rankings |-> parts,
      reasoning |-> "reasoning", iteration |-> it]]

OptionalWinners(parts) == {<<>>} \cup {<<a>> : a \in Range(parts)}

ManagerInit ==
  /\ pc = "manager"
  /\ participants \in ParticipantLists
  /\ scoring_system = [r \in 1..1 |-> 1]
  /\ point_threshold = 0
  /\ max_possible_points = _calculate_max_points(participants, scoring_system)
  /\ votes = <<>>
  /\ scores = <<>>
  /\ consensus_reached = FALSE
  /\ winner = None
  /\ IdleBelief
  /\ IdleDebate
  /\ IdleSession
  /\ IdleConstruction
  /\ IdleState
  /\ IdleUpdate

\* record_iteration(iteration, arguments, votes, consensus_reached, winner):
\* a ValidationError of DebateIteration leaves the state as it is
ManagerRecordIteration ==
  /\ pc = "manager"
  /\ Len(debate_state) < MaxRounds
  /\ \E it \in 0..(MaxRounds - 1),
        arguments \in {<<>>, FullArguments(participants)},
        voted \in BOOLEAN, reached \in BOOLEAN,
        win \in OptionalWinners(participants) :
       LET vs == IF voted THEN <<FullVotes(participants, it)>> ELSE <<>>
           r == DebateIteration(it, "question", arguments, vs, reached, win)
       IN debate_state' = IF ValidDebateIteration(r)
                            THEN Append(debate_state, r) ELSE debate_state
  /\ UNCHANGED <<pc, votingVars, tallyVars, beliefVars, debateVars,
                 sessionVars, constructionVars, reloaded, updateVars,
                 speakerVars>>

\* get_debate_summary, then DebateState.model_validate of the saved format
SaveAndReload ==
  /\ pc = "manager"
  /\ reloaded' = <<ReloadDebateState(to_save_format(debate_state))>>
  /\ pc' = "reloaded"
  /\ UNCHANGED <<votingVars, tallyVars, beliefVars, debateVars,
                 sessionVars, constructionVars, debate_state, updateVars,
                 speakerVars>>

ManagerNext == ManagerRecordIteration \/ SaveAndReload

ManagerSpec == ManagerInit /\ [][ManagerNext]_vars

\* ------------------------------------------------- Vote of models/voting.py
\* the pydantic validators of Vote: field constraints, validate_rankings,
\* voter_in_rankings
ValidVote(v) ==
  /\ v.voter # ""
  /\ v.reasoning # ""
  /\ v.iteration >= 0
  /\ v.rankings # <<>>
  /\ DuplicateFree(v.rankings)
  /\ \A i \in 1..Len(v.rankings) : v.rankings[i] # ""
  /\ v.voter \in Range(v.rankings)

\* --------------------------------------------------------------- DebateApp
\* debate_order of run_voting_debate and run_classic_debate, as names
DebateOrderNames ==
  <<"Claude Optimist", "GPT Critic", "GPT Visionary", "Claude Skeptic">>

DebateOrder(parts) == SelectSeq(DebateOrderNames, LAMBDA n : n \in Range(parts))

\* DebateConfig.scoring_system default
DefaultScoringSystem == <<4, 3, 2, 1>>

\* run_classic_debate: range(1, 4)
ClassicRounds == 3

Without(names, voter) == SelectSeq(names, LAMBDA n : n # voter)

SelfFirst(voter, names) == <<voter>> \o Without(names, voter)

\* a name the model writes into its rankings that is no participant's
OutsideName == "Judge"

\* what personality.generate_vote can return: the parsed JSON object of the
\* model, or the fallback dict of its JSONDecodeError handler; a key is
\* <<>> when the object lacks it and <<value>> otherwise
VoteData(voter, names) ==
  { [rankings |-> <<SelfFirst(voter, names)>>, reasoning |-> <<"reasoning">>],
    [rankings |-> <<names>>, reasoning |-> <<"Unable to parse vote">>],
    [rankings |-> <<Without(names, voter)>>, reasoning |-> <<"reasoning">>],
    [rankings |-> << <<voter, voter>> >>, reasoning |-> <<"reasoning">>],
    [rankings |-> <<>>, reasoning |-> <<>>] }

\* a reply of generate_vote that ranks a name outside the debate
OutsideVoteData(voter) ==
  { [rankings |-> << <<voter, OutsideName>> >>,
     reasoning |-> <<"reasoning">>] }

\* variant: the vote is stamped with the number of the next iteration
AppVoteStampedLate(name, vote_data, participant_names, it) ==
  Vote(name,
       IF vote_data.rankings = <<>> THEN participant_names
       ELSE vote_data.rankings[1],
       IF vote_data.reasoning = <<>> THEN "" ELSE vote_data.reasoning[1],
       it + 1)

\* DebateApp.collect_votes: the Vote built from vote_data
AppVote(name, vote_data, participant_names, it) ==
  Vote(name,
       IF vote_data.rankings = <<>> THEN participant_names
       ELSE vote_data.rankings[1],
       IF vote_data.reasoning = <<>> THEN "" ELSE vote_data.reasoning[1],
       it)

\* variant: the loop only stops at the iteration cap
LoopConditionCapOnly(it, maxit, reached) == it < maxit

\* while iteration < self.config.max_iterations and not consensus_reached
LoopCondition(it, maxit, reached) == it < maxit /\ ~reached

\* variant: voting starts one round late
VotingPhaseLate(it, start) == it > start

\* if iteration >= self.config.voting_start_iteration
VotingPhase(it, start) == it >= start

\* save_debate_state: the file holds the dumped debate_data on success and
\* is left as it was when the write fails (the exception is swallowed)
save_debate_state(file, data, ok) == IF ok THEN <<data>> ELSE file

\* variant: without the try/except the call only returns when the write
\* succeeded
SaveReturnsOnSuccess(ok) == ok

\* save_debate_state wraps its body in try/except Exception: the call
\* returns (the path, or None) whether the write succeeded or not
SaveReturns(ok) == TRUE

DebateThresholds == {0, ThresholdDen - 1, ThresholdDen}

DebateInit ==
  /\ pc = "start"
  /\ participants = SubSeq(PersonalityNames, 1, NumParticipants)
  /\ scoring_system = DefaultScoringSystem
  /\ point_threshold \in DebateThresholds
  /\ max_possible_points = _calculate_max_points(participants, scoring_system)
  /\ votes = <<>>
  /\ scores = <<>>
  /\ consensus_reached = FALSE
  /\ winner = None
  /\ IdleBelief
  /\ IdleSession
  /\ IdleConstruction
  /\ IdleState
  /\ IdleUpdate
  /\ mode \in {"classic", "voting"}
  /\ max_iterations \in 1..MaxIterations
  /\ voting_start_iteration \in 0..MaxIterations
  /\ save_enabled \in BOOLEAN
  /\ iteration = 0
  /\ debate_history = <<>>
  /\ round_arguments = <<>>
  /\ vote_history = <<>>
  /\ final_votes = <<>>
  /\ iterations = <<>>
  /\ debate_data = NewDebateData
  /\ saved_file = <<>>
  /\ judge_prompt = <<>>
  /\ judge_decision = <<>>
  /\ failure = ""
  /\ round_num = 1
  /\ debate_context = <<>>
  /\ judge_calls = 0
  /\ save_failed = FALSE
  /\ speaker_context = <<>>

\* run_debate: dispatch on the configured mode
RunDebate ==
  /\ pc = "start"
  /\ pc' = IF mode = "classic" THEN "classic_round" ELSE "loop"
  /\ UNCHANGED <<votingVars, tallyVars, beliefVars, auxVars, debateVars>>

\* the while condition holds: a new round starts
StartRound ==
  /\ pc = "loop"
  /\ LoopCondition(iteration, max_iterations, consensus_reached)
  /\ round_arguments' = <<>>
  /\ votes' = <<>>
  /\ pc' = "arguing"
  /\ UNCHANGED <<votingVars, scores, consensus_reached, winner, beliefVars, auxVars,
                 configVars, iteration, debate_history, vote_history,
                 final_votes, iterations, saveVars, judgeVars, failure,
                 classicVars>>

\* the while condition fails: the loop is left for the judge
ExitLoop ==
  /\ pc = "loop"
  /\ ~LoopCondition(iteration, max_iterations, consensus_reached)
  /\ pc' = "judge"
  /\ UNCHANGED <<votingVars, tallyVars, beliefVars, auxVars, debateVars>>

\* one part of a formatted context: the "ITERATION i:" line of a round, the
\* "name:\nargument" block of one argument, the "=" * 50 line that closes a
\* round, or the "CURRENT ITERATION:" line
ContextPart(kind, name, argument) ==
  [kind |-> kind, name |-> name, argument |-> argument]

\* format_current_round_context: one block per item of round_arguments
format_current_round_context(args) ==
  [j \in 1..Len(args) |-> ContextPart("argument", args[j][1], args[j][2])]

\* format_debate_history: for i, round_args in enumerate(debate_history)
RECURSIVE format_debate_history_from(_, _)
format_debate_history_from(history, i) ==
  IF i > Len(history) THEN <<>>
  ELSE <<ContextPart("iteration", "", i - 1)>>
       \o format_current_round_context(history[i])
       \o <<ContextPart("separator", "", i - 1)>>
       \o format_debate_history_from(history, i + 1)

format_debate_history(history) == format_debate_history_from(history, 1)

\* variant: the current round is left out of the context
SpeakerContextHistoryOnly(it, history, args) ==
  IF it = 0 THEN <<>> ELSE format_debate_history(history)

\* the context handed to the next speaker ("" is <<>>)
SpeakerContext(it, history, args) ==
  IF it = 0 THEN <<>>
  ELSE LET prev_context == format_debate_history(history)
           curr_context == format_current_round_context(args)
       IN IF curr_context # <<>>
            THEN prev_context \o <<ContextPart("current", "", it)>>
                 \o curr_context
            ELSE prev_context

\* one pass of the for loop over debate_order: the next speaker's belief and
\* argument calls; an exception of the collaborator leaves the run
Speak ==
  /\ pc = "arguing"
  /\ speaker_context' =
       SpeakerContext(iteration, debate_history, round_arguments)
  /\ LET order == DebateOrder(participants)
         speaker == order[Len(round_arguments) + 1]
     IN \E returns \in BOOLEAN :
          IF returns
            THEN LET args == Append(round_arguments, <<speaker, iteration>>)
                 IN /\ round_arguments' = args
                    /\ IF Len(args) = Len(order)
                         THEN /\ debate_history' = Append(debate_history, args)
                              /\ pc' = IF VotingPhase(iteration,
                                                      voting_start_iteration)
                                         THEN "collect_votes" ELSE "record"
                         ELSE /\ debate_history' = debate_history
                              /\ pc' = "arguing"
                    /\ failure' = failure
            ELSE /\ pc' = "aborted"
                 /\ failure' = "argument_failure"
                 /\ UNCHANGED <<round_arguments, debate_history>>
  /\ UNCHANGED <<votingVars, tallyVars, beliefVars, sessionVars,
                 constructionVars, stateVars, updateVars, configVars,
                 iteration, vote_history, final_votes, iterations, saveVars,
                 judgeVars, classicVars>>

\* collect_votes: the next personality's generate_vote call and the Vote
\* built from it; a failing call and a ValidationError both propagate
CollectVote(outside) ==
  /\ pc = "collect_votes"
  /\ LET voter == participants[Len(votes) + 1]
         replies == VoteData(voter, participants)
                    \cup (IF outside THEN OutsideVoteData(voter) ELSE {})
     IN \/ \E vote_data \in replies :
             LET vote == AppVote(voter, vote_data, participants, iteration)
             IN IF ValidVote(vote)
                  THEN /\ votes' = Append(votes, vote)
                       /\ pc' = IF Len(votes) + 1 = Len(participants)
                                  THEN "add_votes" ELSE "collect_votes"
                       /\ failure' = failure
                  ELSE /\ pc' = "aborted"
                       /\ failure' = "malformed_vote"
                       /\ votes' = votes
        \/ /\ pc' = "aborted"
           /\ failure' = "vote_failure"
           /\ votes' = votes
  /\ UNCHANGED <<votingVars, scores, consensus_reached, winner, beliefVars, auxVars,
                 configVars, loopVars, saveVars, judgeVars, classicVars>>

\* the voting phase with replies that rank participants only
GenerateVote == CollectVote(FALSE)

\* the voting phase with replies that rank any name
GenerateVoteAnyName == CollectVote(TRUE)

\* self.voting_system.add_votes(votes); display_vote_results only reads
AddVotes ==
  /\ pc = "add_votes"
  /\ vote_history' = Append(vote_history, votes)
  /\ pc' = "check"
  /\ UNCHANGED <<votingVars, tallyVars, beliefVars, auxVars, configVars, iteration,
                 debate_history, round_arguments, final_votes, iterations,
                 saveVars, judgeVars, failure, classicVars>>

\* scores = calculate_scores(votes); consensus_reached, winner =
\* check_consensus(scores); final_votes = votes on consensus
ConsensusCheck ==
  /\ pc = "check"
  /\ LET sc == calculate_scores(scoring_system, votes)
         result == check_consensus(sc, max_possible_points, point_threshold)
     IN /\ scores' = sc
        /\ consensus_reached' = result.reached
        /\ winner' = result.winner
        /\ final_votes' = IF result.reached THEN votes ELSE final_votes
  /\ pc' = "record"
  /\ UNCHANGED <<votingVars, votes, beliefVars, auxVars, configVars, iteration,
                 debate_history, round_arguments, vote_history, iterations,
                 saveVars, judgeVars, failure, classicVars>>

\* variant: the votes of the round are left out of iteration_data
IterationDataArgumentsOnly ==
  [iteration |-> iteration,
   arguments |-> round_arguments,
   votes |-> <<>>,
   consensus_reached |-> consensus_reached,
   voting_summary |-> <<>>]

\* iteration_data of the round
IterationData ==
  LET voted == VotingPhase(iteration, voting_start_iteration) /\ votes # <<>>
  IN [iteration |-> iteration,
      arguments |-> round_arguments,
      votes |-> IF voted THEN IndividualVotes(votes) ELSE <<>>,
      consensus_reached |-> consensus_reached,
      voting_summary |->
        IF voted /\ Len(vote_history) > 0
          THEN get_vote_summary(vote_history, scoring_system,
                                max_possible_points, point_threshold,
                                Len(vote_history) - 1)
          ELSE <<>>]

\* end of the loop body: iteration_data, the save of the round, iteration += 1
RecordIteration ==
  /\ pc = "record"
  /\ iterations' = Append(iterations, IterationData)
  /\ \E ok \in BOOLEAN :
       IF save_enabled
         THEN LET data == [debate_data EXCEPT
                             !.iterations = Append(@, IterationData),
                             !.final_consensus = <<consensus_reached>>]
              IN /\ debate_data' = data
                 /\ saved_file' = save_debate_state(saved_file, data, ok)
                 /\ save_failed' = ~ok
                 /\ IF SaveReturns(ok)
                      THEN /\ iteration' = iteration + 1
                           /\ pc' = "loop"
                           /\ failure' = failure
                      ELSE /\ iteration' = iteration
                           /\ pc' = "aborted"
                           /\ failure' = "save_failure"
         ELSE /\ UNCHANGED saveVars
              /\ iteration' = iteration + 1
              /\ pc' = "loop"
              /\ failure' = failure
  /\ UNCHANGED <<votingVars, tallyVars, beliefVars, auxVars, configVars,
                 debate_history, round_arguments, vote_history, final_votes,
                 judgeVars, classicVars>>

\* _render_judge_decision_with_voting and the final save
JudgeReview ==
  /\ pc = "judge"
  /\ LET summary ==
           IF final_votes # <<>> /\ Len(vote_history) > 0
             THEN get_vote_summary(vote_history, scoring_system,
                                   max_possible_points, point_threshold,
                                   Len(vote_history) - 1)
             ELSE <<>>
         prompt == [debate_history |-> debate_history,
                    voting_summary |-> summary]
     IN \E returns \in BOOLEAN, ok \in BOOLEAN :
          IF returns
            THEN /\ judge_prompt' = <<prompt>>
                 /\ judge_decision' = <<"decision">>
                 /\ IF save_enabled
                      THEN LET data == [debate_data EXCEPT
                                          !.final_judge_decision =
                                             <<"decision">>]
                           IN /\ debate_data' = data
                              /\ saved_file' =
                                   save_debate_state(saved_file, data, ok)
                              /\ save_failed' = ~ok
                              /\ IF SaveReturns(ok)
                                   THEN /\ pc' = "done"
                                        /\ failure' = failure
                                   ELSE /\ pc' = "aborted"
                                        /\ failure' = "save_failure"
                      ELSE /\ UNCHANGED saveVars
                           /\ pc' = "done"
                           /\ failure' = failure
            ELSE /\ judge_prompt' = <<prompt>>
                 /\ pc' = "aborted"
                 /\ failure' = "judge_failure"
                 /\ UNCHANGED <<judge_decision, saveVars>>
  /\ judge_calls' = judge_calls + 1
  /\ UNCHANGED <<votingVars, tallyVars, beliefVars, auxVars, configVars, loopVars,
                 classicVars>>

\* variant: the round before the configured last one already ends the loop
LastClassicRoundEarly(r) == r >= ClassicRounds - 1

\* for round_num in range(1, 4): round_num is the last value of the range
LastClassicRound(r) == r = ClassicRounds

\* run_classic_debate: one speaker of one of the three rounds
ClassicSpeak ==
  /\ pc = "classic_round"
  /\ LET order == DebateOrder(participants)
         speaker == order[(Len(debate_context) % Len(order)) + 1]
     IN \E returns \in BOOLEAN :
          IF returns
            THEN LET context == Append(debate_context, <<speaker, round_num>>)
                     round_over == Len(context) % Len(order) = 0
                 IN /\ debate_context' = context
                    /\ round_num' = IF round_over
                                         /\ ~LastClassicRound(round_num)
                                      THEN round_num + 1 ELSE round_num
                    /\ pc' = IF round_over /\ LastClassicRound(round_num)
                               THEN "classic_judge" ELSE "classic_round"
                    /\ failure' = failure
            ELSE /\ pc' = "aborted"
                 /\ failure' = "argument_failure"
                 /\ UNCHANGED classicVars
  /\ UNCHANGED <<votingVars, tallyVars, beliefVars, auxVars, configVars, loopVars,
                 saveVars, judgeVars>>

\* _render_judge_decision of the classic mode
ClassicJudge ==
  /\ pc = "classic_judge"
  /\ \E returns \in BOOLEAN :
       IF returns
         THEN /\ judge_prompt' = <<[debate_history |-> debate_context,
                                    voting_summary |-> <<>>]>>
              /\ judge_decision' = <<"decision">>
              /\ pc' = "done"
              /\ failure' = failure
         ELSE /\ judge_prompt' = <<[debate_history |-> debate_context,
                                    voting_summary |-> <<>>]>>
              /\ judge_decision' = judge_decision
              /\ pc' = "aborted"
              /\ failure' = "judge_failure"
  /\ judge_calls' = judge_calls + 1
  /\ UNCHANGED <<votingVars, tallyVars, beliefVars, auxVars, configVars, loopVars,
                 saveVars, classicVars>>

Init == DebateInit

Next ==
  \/ RunDebate
  \/ StartRound
  \/ ExitLoop
  \/ Speak
  \/ GenerateVote
  \/ AddVotes
  \/ ConsensusCheck
  \/ RecordIteration
  \/ JudgeReview
  \/ ClassicSpeak
  \/ ClassicJudge

Spec == Init /\ [][Next]_vars

\* ---------- specification of a voting debate of one round (debate_app.py)
\* the run of Spec with max_iterations = 1 and voting from round 0, in which
\* the rankings of a reply are not limited to the participants
RoundInit ==
  /\ DebateInit
  /\ mode = "voting"
  /\ max_iterations = 1
  /\ voting_start_iteration = 0

RoundNext ==
  \/ RunDebate
  \/ StartRound
  \/ ExitLoop
  \/ Speak
  \/ GenerateVoteAnyName
  \/ AddVotes
  \/ ConsensusCheck
  \/ RecordIteration
  \/ JudgeReview

RoundSpec == RoundInit /\ [][RoundNext]_vars

\* ------------------------------------------------- claims: voting functions
ScoreValues(d) == {d[i][2] : i \in 1..Len(d)}

HighestScore(d) == CHOOSE m \in ScoreValues(d) : \A x \in ScoreValues(d) : x <= m

TopScorers(d) == {a \in Keys(d) : Get(d, a) = HighestScore(d)}

\* points of the configured ranks 1..k at which ranking r lists agent a
RECURSIVE RankPoints(_, _, _)
RankPoints(a, r, k) ==
  IF k = 0 THEN 0
  ELSE (IF k <= Len(r) /\ r[k] = a THEN scoring_system[k] ELSE 0)
       + RankPoints(a, r, k - 1)

\* points that the first n votes give agent a
RECURSIVE EarnedUpTo(_, _)
EarnedUpTo(a, n) ==
  IF n = 0 THEN 0
  ELSE RankPoints(a, votes[n].rankings, Len(scoring_system))
       + EarnedUpTo(a, n - 1)

\* the <<vote, rank>> positions at which agent a is ranked at a configured rank
AwardedPositions(a) ==
  {e \in (1..Len(votes)) \X (DOMAIN scoring_system) :
     /\ e[2] <= Len(votes[e[1]].rankings)
     /\ votes[e[1]].rankings[e[2]] = a}

EarnedPoints(a) == EarnedUpTo(a, Len(votes))

\* first element of seq that belongs to S
FirstIn(seq, S) ==
  seq[CHOOSE i \in 1..Len(seq) :
        seq[i] \in S /\ \A j \in 1..(i - 1) : seq[j] \notin S]

\* the agents in the order in which the votes award them points
RECURSIVE AwardOrder(_)
AwardOrder(vs) ==
  IF vs = <<>> THEN <<>>
  ELSE LET r == Head(vs).rankings
           k == IF Len(r) < Len(scoring_system) THEN Len(r)
                ELSE Len(scoring_system)
       IN SubSeq(r, 1, k) \o AwardOrder(Tail(vs))

\* C1: consensus is reported iff the highest score of the map is at least
\* point_threshold x (number of participants x points of rank 1), equality
\* included; the winner is a top scorer when reached and None otherwise.
C1_ConsensusIffThreshold ==
  pc = "checked" =>
    /\ consensus_reached <=>
         /\ scores # <<>>
         /\ HighestScore(scores) * ThresholdDen >=
              point_threshold * (Len(participants) * scoring_system[1])
    /\ consensus_reached =>
         /\ winner \in Keys(scores)
         /\ Get(scores, winner) = HighestScore(scores)
    /\ ~consensus_reached => winner = None

\* the top score is exactly the threshold score and consensus is reported
C1_Witness ==
  /\ pc = "checked"
  /\ scores # <<>>
  /\ point_threshold > 0
  /\ HighestScore(scores) * ThresholdDen =
       point_threshold * (Len(participants) * scoring_system[1])
  /\ consensus_reached
  /\ winner # None

\* C2: every agent's value in the score map is the sum of the points of the
\* configured ranks at which the votes rank it; an agent that earns nothing
\* is absent from the map; no key occurs twice; no votes give an empty map.
C2_ScoresAreRankSums ==
  pc = "checked" =>
    /\ \A i, j \in 1..Len(scores) : i # j => scores[i][1] # scores[j][1]
    /\ Keys(scores) \subseteq Range(participants)
    /\ \A a \in Range(participants) :
         LET earned == EarnedPoints(a)
         IN IF earned > 0
              THEN HasKey(scores, a) /\ Get(scores, a) = earned
              ELSE ~HasKey(scores, a)
    /\ votes = <<>> => scores = <<>>

\* one agent is scored by two votes, another is ranked only beyond the
\* configured ranks and is absent from the map
C2_Witness ==
  /\ pc = "checked"
  /\ Len(votes) = 2
  /\ \E a \in Range(participants) : Cardinality(AwardedPositions(a)) = 2
  /\ \E b \in Range(participants) :
       /\ \E v \in 1..Len(votes) : b \in Range(votes[v].rankings)
       /\ ~HasKey(scores, b)

\* C8 as stated: among tied top scorers that meet the threshold the winner
\* is the first one in the configured participant order.
C8_WinnerFirstInParticipantOrder ==
  (pc = "checked" /\ consensus_reached /\ Cardinality(TopScorers(scores)) > 1)
    => winner = FirstIn(participants, TopScorers(scores))

\* C8 amended: among tied top scorers that meet the threshold exactly one
\* winner is returned, the first top scorer of the score map, i.e. the tied
\* agent that the votes award points first (vote order, then rank order).
C8_WinnerFirstAwarded ==
  (pc = "checked" /\ consensus_reached /\ Cardinality(TopScorers(scores)) > 1)
    => /\ winner \in TopScorers(scores)
       /\ winner = FirstIn(AwardOrder(votes), TopScorers(scores))

\* a tie that meets the threshold, won by an agent that is not the first
\* tied agent of the participant list
C8_Witness ==
  /\ pc = "checked"
  /\ consensus_reached
  /\ Cardinality(TopScorers(scores)) > 1
  /\ winner = FirstIn(AwardOrder(votes), TopScorers(scores))
  /\ winner # FirstIn(participants, TopScorers(scores))

\* C9: with duplicate-free rankings no participant receives more than
\* points[1] x (number of voters) in one round.
C9_ScoreAtMostFirstRankTimesVoters ==
  (/\ pc = "checked"
   /\ \A v \in 1..Len(votes) : DuplicateFree(votes[v].rankings))
    => \A i \in 1..Len(scores) :
         scores[i][2] <= scoring_system[1] * Len(votes)

\* C10: an empty score map gives no consensus and no winner, at every
\* threshold, 0 included.
C10_EmptyScoresNoConsensus ==
  (pc = "checked" /\ scores = <<>>) =>
    (~consensus_reached /\ winner = None)

\* the empty map checked at threshold 0
C10_Witness ==
  /\ pc = "checked"
  /\ scores = <<>>
  /\ point_threshold = 0
  /\ ~consensus_reached

\* ------------------------------------------------ claims: belief revision
\* C7: the update is accepted iff evidence_strength >=
\* belief_persistence*10 - truth_seeking*5, equality included; with
\* persistence 9 and truth-seeking 6, 60 is accepted and 59 is rejected.
C7_AcceptIffEvidenceAtLeastThreshold ==
  pc = "decided" =>
    /\ should_update <=>
         (evidence_strength + truth_seeking * 5 >= belief_persistence * 10)
    /\ (belief_persistence = 9 /\ truth_seeking = 6 /\ evidence_strength = 60)
         => should_update
    /\ (belief_persistence = 9 /\ truth_seeking = 6 /\ evidence_strength = 59)
         => ~should_update

\* evidence exactly at the threshold 9*10 - 6*5 = 60 is accepted
C7_Witness ==
  /\ pc = "decided"
  /\ belief_persistence = 9
  /\ truth_seeking = 6
  /\ evidence_strength = 60
  /\ should_update = TRUE

\* --------------------------------------------------- claims: the debate run
\* number of rounds among 0..n-1 in which votes are collected
VotedRounds(n) ==
  Cardinality({i \in 0..(n - 1) : i >= voting_start_iteration})

CallFailures == {"argument_failure", "vote_failure", "judge_failure"}

\* C3: the rounds run in the order 0, 1, 2, ...; no round runs after a
\* round that reached consensus and none beyond max_iterations; the loop is
\* left after the first round with consensus or, without consensus, after
\* round max_iterations - 1.
C3_LoopExitsOnConsensusOrCap ==
  mode = "voting" =>
    /\ iteration <= max_iterations
    /\ Len(debate_history) <= max_iterations
    /\ Len(iterations) = iteration
    /\ \A k \in 1..Len(iterations) : iterations[k].iteration = k - 1
    /\ \A k \in 1..(Len(iterations) - 1) : ~iterations[k].consensus_reached
    /\ pc \in {"arguing", "collect_votes", "add_votes", "check", "record"} =>
         /\ iteration < max_iterations
         /\ \A k \in 1..Len(iterations) : ~iterations[k].consensus_reached
    /\ pc \in {"judge", "done"} =>
         /\ Len(iterations) >= 1
         /\ \/ iterations[Len(iterations)].consensus_reached
            \/ Len(iterations) = max_iterations

\* the loop is left by consensus before the iteration cap
C3_Witness ==
  /\ mode = "voting"
  /\ pc = "judge"
  /\ iterations[Len(iterations)].consensus_reached
  /\ Len(iterations) < max_iterations

\* C4: if no collaborator call fails to return, the run reaches the judge
\* review and terminates: a run that has stopped without any failed call
\* has the judge's decision.
C4_RunStopsOnlyAfterJudgeReview ==
  (pc \in {"done", "aborted"} /\ failure \notin CallFailures)
    => (pc = "done" /\ judge_decision # <<>>)

\* C5: votes are collected in round i iff i >= voting_start_iteration; a
\* collected vote set holds one vote of every participant and is added to
\* the voting session once, after the round's arguments and before its
\* consensus check.
C5_VoteSetOncePerVotingRound ==
  mode = "voting" =>
    /\ pc \in {"collect_votes", "add_votes", "check"} =>
         /\ iteration >= voting_start_iteration
         /\ Len(round_arguments) = Len(participants)
         /\ debate_history[Len(debate_history)] = round_arguments
         /\ ~consensus_reached
    /\ \A k \in 1..Len(iterations) :
         /\ iterations[k].votes # <<>> <=> k - 1 >= voting_start_iteration
         /\ Len(iterations[k].votes) \in {0, Len(participants)}
    /\ \A k \in 1..Len(vote_history) :
         /\ Len(vote_history[k]) = Len(participants)
         /\ \A j \in 1..Len(participants) :
              /\ vote_history[k][j].voter = participants[j]
              /\ vote_history[k][j].iteration = voting_start_iteration + k - 1
    /\ Len(vote_history) =
         VotedRounds(iteration) +
           (IF pc \in {"check", "record"} /\ iteration >= voting_start_iteration
              THEN 1 ELSE 0)
    /\ pc = "check" => vote_history[Len(vote_history)] = votes

\* the first voting round is round 1: round 0 was recorded without votes
C5_Witness ==
  /\ mode = "voting"
  /\ pc = "record"
  /\ voting_start_iteration = 1
  /\ iteration = 1
  /\ Len(vote_history) = 1
  /\ iterations[1].votes = <<>>

\* C6: a malformed vote or a failing vote call never leaves the round with
\* an exception.
C6_VoteFailureStaysInRound ==
  ~(pc = "aborted" /\ failure \in {"malformed_vote", "vote_failure"})

\* ------------------------------------------- claims: VotingSystem session
\* points that the first n votes of vs give agent a
RECURSIVE EarnedIn(_, _, _)
EarnedIn(a, vs, n) ==
  IF n = 0 THEN 0
  ELSE RankPoints(a, vs[n].rankings, Len(scoring_system))
       + EarnedIn(a, vs, n - 1)

PositionIn(seq, x) == CHOOSE i \in 1..Len(seq) : seq[i] = x

TrendOf(tr, participant) == tr[KeyIndex(tr, participant)][2]

\* C11: get_vote_summary(i) returns the empty summary for every index that
\* is not recorded; for a recorded index the scores, the consensus flag, the
\* winner and the threshold score of the summary are those of
\* calculate_scores and check_consensus on the votes of round i.
C11_SummaryOfRecordedRoundOnly ==
  pc = "summary" =>
    IF summary_index >= Len(vote_history)
      THEN vote_summary = <<>>
      ELSE /\ vote_summary # <<>>
           /\ LET s == vote_summary[1]
                  sc == calculate_scores(scoring_system,
                                         vote_history[summary_index + 1])
                  result == check_consensus(sc, max_possible_points,
                                            point_threshold)
              IN /\ s.iteration = summary_index
                 /\ s.scores = sc
                 /\ s.consensus_reached = result.reached
                 /\ s.winner = result.winner
                 /\ s.threshold_score = max_possible_points * point_threshold

\* the summary of round 0 is asked for after two rounds with different scores
C11_Witness ==
  /\ pc = "summary"
  /\ Len(vote_history) = 2
  /\ summary_index = 0
  /\ vote_summary # <<>>
  /\ vote_summary[1].scores # <<>>
  /\ vote_summary[1].scores # calculate_scores(scoring_system, vote_history[2])

\* C12: the iteration numbers of successive entries of the vote history
\* strictly increase, so that no round is recorded twice.
C12_VoteHistoryStrictlyIncreasing ==
  \A i, j \in 1..Len(vote_history) :
    i < j =>
      \A v \in 1..Len(vote_history[i]), w \in 1..Len(vote_history[j]) :
        vote_history[i][v].iteration < vote_history[j][w].iteration

\* C13 as stated: the ranking of a summary is sorted by score, descending,
\* and agents of equal score appear in participant order.
C13_EqualScoresInParticipantOrder ==
  (pc = "summary" /\ vote_summary # <<>>) =>
    LET sr == vote_summary[1].sorted_rankings
    IN \A i, j \in 1..Len(sr) :
         i < j =>
           /\ sr[i][2] >= sr[j][2]
           /\ sr[i][2] = sr[j][2] =>
                PositionIn(participants, sr[i][1])
                  < PositionIn(participants, sr[j][1])

\* C13 amended: the ranking of a summary holds the items of the score map,
\* sorted by score, descending; agents of equal score appear in the order of
\* the score map, the order in which the votes first award them points.
C13_EqualScoresInScoreMapOrder ==
  (pc = "summary" /\ vote_summary # <<>>) =>
    LET sr == vote_summary[1].sorted_rankings
        sc == vote_summary[1].scores
    IN /\ Len(sr) = Len(sc)
       /\ Range(sr) = Range(sc)
       /\ \A i, j \in 1..Len(sr) :
            i < j =>
              /\ sr[i][2] >= sr[j][2]
              /\ sr[i][2] = sr[j][2] =>
                   KeyIndex(sc, sr[i][1]) < KeyIndex(sc, sr[j][1])

\* two agents of equal score, listed against the participant order
C13_Witness ==
  /\ pc = "summary"
  /\ vote_summary # <<>>
  /\ LET sr == vote_summary[1].sorted_rankings
     IN \E i, j \in 1..Len(sr) :
          /\ i < j
          /\ sr[i][2] = sr[j][2]
          /\ PositionIn(participants, sr[i][1])
               > PositionIn(participants, sr[j][1])

\* C14 as stated: after any sequence of recorded rounds the trends hold, for
\* each participant, a sequence with one element per recorded round.
C14_TrendForEveryParticipant ==
  pc = "trends" =>
    \A a \in Range(participants) :
      /\ HasKey(trends, a)
      /\ Len(TrendOf(trends, a)) = Len(vote_history)

\* C14 amended: after at least one recorded round the trends hold, for each
\* participant, a sequence with one element per recorded round, the k-th
\* being the participant's score in round k and 0 when it earned nothing;
\* with no recorded round the trends hold no participant at all.
C14_TrendPerRecordedRound ==
  pc = "trends" =>
    IF vote_history = <<>>
      THEN trends = <<>>
      ELSE /\ Keys(trends) = Range(participants)
           /\ Len(trends) = Len(participants)
           /\ \A a \in Range(participants) :
                /\ Len(TrendOf(trends, a)) = Len(vote_history)
                /\ \A k \in 1..Len(vote_history) :
                     TrendOf(trends, a)[k] =
                       EarnedIn(a, vote_history[k], Len(vote_history[k]))

\* two recorded rounds; a participant scores in one and earns nothing in
\* the other
C14_Witness ==
  /\ pc = "trends"
  /\ Len(vote_history) = 2
  /\ \E a \in Range(participants) :
       /\ HasKey(trends, a)
       /\ TrendOf(trends, a)[1] > 0
       /\ TrendOf(trends, a)[2] = 0

\* ------------------------------------------------- claims: the classic mode
\* C15: in classic mode the i-th argument is given by the speaker of the
\* fixed order in round ((i-1) div n) + 1, so every participant speaks once
\* per round; there are at most three rounds, no vote is collected and no
\* consensus check is made, and the judge is called only after the third
\* round, with the arguments of the three rounds and no vote summary.
C15_ClassicThreeRoundsThenJudge ==
  mode = "classic" =>
    LET order == DebateOrder(participants)
        n == Len(order)
    IN /\ pc \in {"start", "classic_round", "classic_judge", "done", "aborted"}
       /\ Len(debate_context) <= 3 * n
       /\ \A i \in 1..Len(debate_context) :
            debate_context[i] = <<order[((i - 1) % n) + 1], ((i - 1) \div n) + 1>>
       /\ vote_history = <<>> /\ votes = <<>> /\ final_votes = <<>>
       /\ scores = <<>> /\ ~consensus_reached /\ winner = None
       /\ pc = "classic_judge" => Len(debate_context) = 3 * n
       /\ judge_calls > 0 =>
            /\ Len(debate_context) = 3 * n
            /\ judge_prompt = <<[debate_history |-> debate_context,
                                 voting_summary |-> <<>>]>>
       /\ pc = "done" => judge_calls = 1

\* a classic run that ended with the judge's decision after three rounds
C15_Witness ==
  /\ mode = "classic"
  /\ pc = "done"
  /\ judge_calls = 1
  /\ judge_decision # <<>>
  /\ Len(debate_context) = 3 * Len(participants)
  /\ debate_context[Len(debate_context)][2] = 3

\* ------------------------------------------------ claims: the judge review
\* what C16 says of the judge call apart from the vote summary: one call,
\* after the loop has exited, with the arguments of every completed round
JudgeCalledOnceAfterLoop ==
  /\ judge_calls = 1
  /\ pc \in {"done", "aborted"}
  /\ ~(iteration < max_iterations /\ ~consensus_reached)
  /\ Len(debate_history) = iteration
  /\ judge_prompt # <<>>
  /\ judge_prompt[1].debate_history = debate_history

\* C16: the judge is called exactly once, after the round loop has exited,
\* with the arguments of every completed round, and with the final vote
\* summary whenever a vote set has been recorded, whether the loop ended by
\* consensus or by the iteration cap.
C16_JudgeOnceWithHistoryAndVoteSummary ==
  (mode = "voting" /\ judge_calls > 0) =>
    /\ JudgeCalledOnceAfterLoop
    /\ Len(vote_history) > 0 => judge_prompt[1].voting_summary # <<>>

\* ------------------------------------------- claims: the configuration
WellFormedTable(t) ==
  \E K \in 1..(MaxRanks + 2) :
    /\ DOMAIN t = 1..K
    /\ \A r \in 1..K : t[r] >= 1

ThresholdInUnitInterval(a) ==
  a.point_threshold >= 0 /\ a.point_threshold <= ThresholdDen

\* C17 as stated: construction fails for a malformed table, a threshold
\* outside [0,1] or min_iterations > max_iterations, and succeeds for every
\* well-formed table, threshold in [0,1] and max >= min >= 0.
C17_ConstructionSucceedsFromZero ==
  pc = "constructed" =>
    LET a == config_args[1]
    IN /\ (\/ ~WellFormedTable(a.scoring_system)
           \/ ~ThresholdInUnitInterval(a)
           \/ a.min_iterations > a.max_iterations)
            => config_result = "ValidationError"
       /\ (/\ WellFormedTable(a.scoring_system)
           /\ ThresholdInUnitInterval(a)
           /\ a.max_iterations >= a.min_iterations
           /\ a.min_iterations >= 0)
            => config_result = "ok"

\* C17 amended: construction succeeds iff the table is well formed, the
\* threshold is in [0,1] and 1 <= min_iterations <= max_iterations <= 50;
\* it fails with a validation error otherwise.
C17_ConstructionSucceedsWithinLimits ==
  pc = "constructed" =>
    LET a == config_args[1]
    IN /\ config_result \in {"ok", "ValidationError"}
       /\ config_result = "ok" <=>
            /\ WellFormedTable(a.scoring_system)
            /\ ThresholdInUnitInterval(a)
            /\ 1 <= a.min_iterations
            /\ a.min_iterations <= a.max_iterations
            /\ a.max_iterations <= 50

\* a well-formed table and a threshold in [0,1] are rejected only because
\* min_iterations exceeds max_iterations
C17_Witness ==
  /\ pc = "constructed"
  /\ config_result = "ValidationError"
  /\ LET a == config_args[1]
     IN /\ WellFormedTable(a.scoring_system)
        /\ ThresholdInUnitInterval(a)
        /\ a.min_iterations >= 1
        /\ a.max_iterations >= 1
        /\ a.max_iterations <= 50
        /\ a.min_iterations > a.max_iterations

\* ---------------------------------------------- claims: the debate state
\* C18: in every iteration record of the debate state the winner is set iff
\* the consensus-reached flag is true.
C18_WinnerIffConsensusInRecords ==
  \A i \in 1..Len(debate_state) :
    debate_state[i].winner # <<>> <=> debate_state[i].consensus_reached

\* C19: reloading the saved format of a debate state as a DebateState gives
\* back its iteration records (index, arguments, votes, consensus flag,
\* winner).
C19_SaveFormatRoundTrip ==
  pc = "reloaded" =>
    /\ reloaded[1].ok
    /\ reloaded[1].iterations = debate_state

\* ------------------------------------------------- claims: persistence
\* C20: a step whose save fails leaves the debate as a successful save
\* does: the debate history, the vote history and the consensus result are
\* untouched, no failure is raised, the round's record is kept and the
\* iteration counter advances to the next pass of the loop; after the
\* judge's decision the run ends normally.
C20_FailedSaveDoesNotAlterDebate ==
  [][(/\ save_enabled
      /\ save_failed'
      /\ pc \in {"record", "judge"}
      /\ pc = "judge" => judge_decision' # <<>>)
     => /\ failure' = failure
        /\ UNCHANGED <<debate_history, vote_history, scores,
                       consensus_reached, winner, final_votes>>
        /\ pc = "record" =>
             /\ iteration' = iteration + 1
             /\ iterations' = Append(iterations, IterationData)
             /\ pc' = "loop"
        /\ pc = "judge" =>
             /\ iteration' = iteration
             /\ pc' = "done"]_vars

\* every save of a voting run failed, and the run went through two rounds
\* to the judge's decision
C20_Witness ==
  /\ mode = "voting"
  /\ save_enabled
  /\ save_failed
  /\ saved_file = <<>>
  /\ pc = "done"
  /\ iteration = 2
  /\ Len(vote_history) > 0
  /\ judge_decision # <<>>
  /\ failure = ""

\* ------------------------------------------------------------------- C21
\* a step taken by an update_beliefs call that returned True
AcceptedUpdateStep ==
  /\ update_iteration' # update_iteration
  /\ update_result' = "True"

\* C21 (as stated): an accepted update at iteration i replaces the snapshot
\* by the reported one and appends exactly one history entry holding the
\* belief held before the update together with i.
C21_AcceptedUpdateLogsPreviousBelief ==
  [][AcceptedUpdateStep =>
       /\ internal_beliefs' = update_response'[1].updated_beliefs[1]
       /\ belief_history' =
            Append(belief_history, [iteration |-> update_iteration',
                                    beliefs |-> internal_beliefs])]_vars

\* C21 (amended): an accepted update at iteration i replaces the snapshot by
\* the reported one, with no field of the old snapshot carried over, and
\* appends exactly one history entry holding the new snapshot together
\* with i.
C21_AcceptedUpdateLogsNewBelief ==
  [][AcceptedUpdateStep =>
       /\ internal_beliefs' = update_response'[1].updated_beliefs[1]
       /\ belief_history' =
            Append(belief_history, [iteration |-> update_iteration',
                                    beliefs |-> internal_beliefs'])]_vars

\* an accepted update replaced a two-field snapshot by a one-field one
C21_Witness ==
  /\ update_result = "True"
  /\ internal_beliefs = RevisedBeliefs
  /\ Len(belief_history) >= 2
  /\ belief_history[Len(belief_history) - 1].beliefs = InitialBeliefs
  /\ belief_history[Len(belief_history)] =
       [iteration |-> update_iteration, beliefs |-> RevisedBeliefs]

\* ------------------------------------------------------------------- C22
\* the reply of an update_beliefs call is rejected: it is not JSON, or it is
\* an assessment that does not satisfy the acceptance condition
RejectedReply(response) ==
  \/ response.json = "invalid"
  \/ /\ response.json = "object"
     /\ ~UpdateAccepted(response, belief_persistence, truth_seeking)

\* C22: an update_beliefs call whose reply is rejected, a reply that cannot
\* be parsed included, leaves internal_beliefs and belief_history unchanged
\* and returns False.
C22_RejectedUpdateChangesNothing ==
  [][(update_iteration' # update_iteration
      /\ RejectedReply(update_response'[1])) =>
       /\ internal_beliefs' = internal_beliefs
       /\ belief_history' = belief_history
       /\ update_result' = "False"]_vars

\* after an accepted update, a reply that is not JSON was rejected
C22_Witness ==
  /\ update_iteration = 2
  /\ update_response[1].json = "invalid"
  /\ update_result = "False"
  /\ internal_beliefs = RevisedBeliefs
  /\ Len(belief_history) = 2

\* ------------------------------------------------------------------- C27
\* the acceptance threshold of the personality
BeliefThreshold == belief_persistence * 10 - truth_seeking * 5

\* C27: update_beliefs replaces the snapshot only when the reply carries
\* should_update = true and its evidence_strength is at least the threshold;
\* with should_update false or missing the beliefs stay whatever the
\* evidence is; a reply without evidence_strength is judged as evidence 0.
C27_UpdateNeedsFlagAndEvidence ==
  [][update_iteration' # update_iteration =>
       LET r == update_response'[1]
           replaced == \/ internal_beliefs' # internal_beliefs
                       \/ belief_history' # belief_history
                       \/ update_result' = "True"
       IN /\ replaced =>
               /\ r.json = "object"
               /\ r.should_update = <<TRUE>>
               /\ \/ /\ r.evidence_strength # <<>>
                     /\ r.evidence_strength[1] >= BeliefThreshold
                  \/ /\ r.evidence_strength = <<>>
                     /\ 0 >= BeliefThreshold
          /\ (r.json = "object" /\ r.should_update # <<TRUE>>) =>
               /\ ~replaced
               /\ update_result' = "False"
          /\ (/\ r.json = "object"
              /\ r.should_update = <<TRUE>>
              /\ r.evidence_strength = <<>>
              /\ r.updated_beliefs # <<>>) =>
               (update_result' = "True" <=> 0 >= BeliefThreshold)]_vars

\* a reply with should_update = true and no evidence_strength was accepted
\* by a personality whose threshold is not positive
C27_Witness ==
  /\ update_result = "True"
  /\ update_response[1].should_update = <<TRUE>>
  /\ update_response[1].evidence_strength = <<>>
  /\ BeliefThreshold <= 0
  /\ internal_beliefs = update_response[1].updated_beliefs[1]

\* a reply with evidence at the threshold and should_update = false was
\* rejected
C27_WitnessFlagFalse ==
  /\ update_result = "False"
  /\ update_response[1].should_update = <<FALSE>>
  /\ update_response[1].evidence_strength # <<>>
  /\ update_response[1].evidence_strength[1] >= BeliefThreshold

\* ------------------------------------------------------------------- C26
\* C26 (as stated): a negative threshold accepts every evidence strength in
\* 1..100, and the threshold exceeds 100 for some accepted parameters, the
\* most persistent and least truth-seeking ones among them, which then
\* accept no evidence strength in 1..100.
C26_ThresholdExceedsEvidenceScale ==
  pc = "decided" =>
    /\ (BeliefThreshold < 0 /\ evidence_strength \in 1..100) => should_update
    /\ (/\ belief_persistence = MaxTrait
        /\ truth_seeking = MinTrait
        /\ evidence_strength \in 1..100) => ~should_update

\* C26 (amended): over belief_persistence and truth_seeking in 1..10 the
\* threshold lies in -40..95; when it is negative every evidence strength in
\* 1..100 is accepted; it never exceeds 95, so an evidence strength of 95 or
\* more is accepted by every personality.
C26_ThresholdBetweenMinus40And95 ==
  pc = "decided" =>
    /\ BeliefThreshold \in (0 - 40)..95
    /\ (BeliefThreshold < 0 /\ evidence_strength \in 1..100) => should_update
    /\ evidence_strength >= 95 => should_update
    /\ should_update <=> evidence_strength >= BeliefThreshold

\* the weakest evidence was accepted under a negative threshold
C26_Witness ==
  /\ pc = "decided"
  /\ BeliefThreshold < 0
  /\ evidence_strength = 1
  /\ should_update

\* the largest threshold, 95, accepted evidence 95
C26_WitnessLargestThreshold ==
  /\ pc = "decided"
  /\ BeliefThreshold = 95
  /\ evidence_strength = 95
  /\ should_update

\* ------------------------------------------------------------------- C23
\* C23: every ranked entry of every vote of a recorded vote set is a
\* participant of the debate, and so is every agent that holds a score and
\* every consensus winner.
C23_RankedNamesAreParticipants ==
  /\ \A k \in 1..Len(vote_history) : \A i \in 1..Len(vote_history[k]) :
       Range(vote_history[k][i].rankings) \subseteq Range(participants)
  /\ Keys(scores) \subseteq Range(participants)
  /\ winner \in Range(participants) \cup {None}

\* a name outside the debate never wins the consensus
C23_WinnerIsParticipant ==
  consensus_reached => winner \in Range(participants)

\* ------------------------------------------------------------------- C24
\* the <<name, argument>> items a context carries
ContextArguments(c) ==
  {<<c[j].name, c[j].argument>> :
     j \in {n \in 1..Len(c) : c[n].kind = "argument"}}

\* the arguments of the rounds 0..i-1
ArgumentsBefore(i) == UNION {Range(debate_history[r]) : r \in 1..i}

\* a voting round is under way and its last speaker has been handed
\* speaker_context
SpeakerHasContext ==
  /\ mode = "voting"
  /\ \/ pc \in {"arguing", "collect_votes", "add_votes", "check", "record"}
        /\ round_arguments # <<>>
     \/ /\ pc = "aborted"
        /\ failure \in {"argument_failure", "vote_failure", "malformed_vote"}

\* position in the speaking order of the speaker who was handed
\* speaker_context
SpeakerPosition ==
  IF failure = "argument_failure" THEN Len(round_arguments) + 1
  ELSE Len(round_arguments)

\* C24: in iteration 0 every speaker is handed the empty context; in an
\* iteration i > 0 the k-th speaker is handed exactly the arguments of the
\* iterations before i and of the k-1 earlier speakers of iteration i, and
\* no argument of iteration i from the k-th speaker on.
C24_ContextIsHistoryPlusEarlierSpeakers ==
  SpeakerHasContext =>
    LET k == SpeakerPosition
        earlier == {round_arguments[j] : j \in 1..(k - 1)}
    IN /\ iteration = 0 => speaker_context = <<>>
       /\ iteration > 0 =>
            ContextArguments(speaker_context) =
              ArgumentsBefore(iteration) \cup earlier
       /\ \A j \in k..Len(round_arguments) :
            round_arguments[j] \notin ContextArguments(speaker_context)

\* the second speaker of iteration 1 was handed round 0 and the first
\* argument of iteration 1
C24_Witness ==
  /\ mode = "voting"
  /\ pc = "arguing"
  /\ iteration = 1
  /\ Len(round_arguments) = 2
  /\ round_arguments[1] \in ContextArguments(speaker_context)
  /\ Range(debate_history[1]) \subseteq ContextArguments(speaker_context)

\* ------------------------------------------------------------------- C25
\* the record holds an argument of every participant and, for a voting
\* round, a vote of every participant
CompleteRecord(r) ==
  /\ Keys(r.arguments) = Range(participants)
  /\ Len(r.arguments) = Len(participants)
  /\ r.iteration >= voting_start_iteration =>
       /\ Len(r.votes) = Len(participants)
       /\ {r.votes[j].voter : j \in 1..Len(r.votes)} = Range(participants)

\* a collaborator call failed in the middle of a round
RoundInterrupted ==
  /\ pc = "aborted"
  /\ failure \in {"argument_failure", "vote_failure", "malformed_vote"}

\* C25: an iteration record is only appended, one at a time, when every
\* participant's argument of the round and, for a voting round, every
\* participant's vote has been obtained; a step in which a collaborator
\* call fails in the middle of a round leaves the records, debate_data and
\* the saved file as they were.
C25_OnlyCompleteRoundsRecorded ==
  [][/\ (\/ iterations' # iterations
         \/ debate_data'.iterations # debate_data.iterations) =>
          /\ Len(iterations') = Len(iterations) + 1
          /\ SubSeq(iterations', 1, Len(iterations)) = iterations
          /\ CompleteRecord(iterations'[Len(iterations')])
          /\ debate_data'.iterations \in
               {debate_data.iterations,
                Append(debate_data.iterations,
                       iterations'[Len(iterations')])}
     /\ RoundInterrupted' =>
          /\ iterations' = iterations
          /\ debate_data' = debate_data
          /\ saved_file' = saved_file
          /\ Len(iterations) = iteration]_vars

\* the vote call of round 1 failed: round 0 is recorded and saved, round 1
\* is in debate_history but has no record
C25_Witness ==
  /\ RoundInterrupted
  /\ failure = "vote_failure"
  /\ iteration = 1
  /\ Len(debate_history) = 2
  /\ Len(iterations) = 1
  /\ save_enabled
  /\ Len(debate_data.iterations) = 1

\* ------------------------------------------------------------------- C28
\* number of vote sets held once the round with index i has completed
VoteSetsAfterRound(i) ==
  IF i - voting_start_iteration + 1 > 0
    THEN i - voting_start_iteration + 1 ELSE 0

\* C28: in a voting debate, once round i has completed the session holds
\* max(0, i - voting_start_iteration + 1) vote sets; the k-th vote set
\* (0-based) was cast in iteration voting_start_iteration + k; and the
\* summary stored in the record of a voting round, fetched with index
\* len(vote_history) - 1, is the summary of the votes of that round.
C28_VoteSetIndexIsRoundMinusStart ==
  mode = "voting" =>
    /\ pc \in {"loop", "judge", "done"} =>
         Len(vote_history) = VoteSetsAfterRound(iteration - 1)
    /\ \A k \in 1..Len(vote_history) : \A j \in 1..Len(vote_history[k]) :
         vote_history[k][j].iteration = voting_start_iteration + (k - 1)
    /\ \A n \in 1..Len(iterations) :
         LET r == iterations[n]
         IN IF r.iteration >= voting_start_iteration
              THEN /\ r.voting_summary # <<>>
                   /\ r.voting_summary[1].iteration =
                        r.iteration - voting_start_iteration
                   /\ r.voting_summary[1].individual_votes = r.votes
                   /\ r.voting_summary[1].individual_votes =
                        IndividualVotes(
                          vote_history[r.iteration
                                       - voting_start_iteration + 1])
              ELSE r.voting_summary = <<>> /\ r.votes = <<>>

\* voting started in round 1; after round 1 the session holds one vote set
\* and the record of round 1 carries the summary with index 0
C28_Witness ==
  /\ mode = "voting"
  /\ pc = "loop"
  /\ voting_start_iteration = 1
  /\ iteration = 2
  /\ Len(vote_history) = 1
  /\ iterations[2].voting_summary # <<>>
  /\ iterations[2].voting_summary[1].iteration = 0
  /\ iterations[1].voting_summary = <<>>

\* ------------------------------------------------------------------- C29
\* C29: in the records of a voting debate the consensus flag is false in
\* every record but possibly the last: the rounds before
\* voting_start_iteration are recorded with consensus false, and no record
\* follows a record with consensus true.
C29_ConsensusOnlyInLastRecord ==
  mode = "voting" =>
    /\ \A n \in 1..Len(iterations) :
         /\ n < Len(iterations) => ~iterations[n].consensus_reached
         /\ iterations[n].iteration < voting_start_iteration =>
              ~iterations[n].consensus_reached
    /\ \A n \in 1..Len(debate_data.iterations) :
         n < Len(debate_data.iterations) =>
           ~debate_data.iterations[n].consensus_reached

\* a run of two rounds ended with consensus in the second round
C29_Witness ==
  /\ mode = "voting"
  /\ pc = "done"
  /\ Len(iterations) = 2
  /\ ~iterations[1].consensus_reached
  /\ iterations[1].votes # <<>>
  /\ iterations[2].consensus_reached

\* ------------------------------------------------------------------- C30
\* check_consensus of the session on its score map at threshold t
ConsensusAt(t) == check_consensus(scores, max_possible_points, t)

\* C30: for the participants, scoring table and score map of the session,
\* consensus with winner w at threshold t gives consensus with winner w at
\* every threshold t2 <= t, and no consensus at t gives no consensus at
\* every threshold t2 >= t.
C30_ConsensusMonotoneInThreshold ==
  pc = "checked" =>
    /\ ConsensusAt(point_threshold) =
         [reached |-> consensus_reached, winner |-> winner]
    /\ \A t \in Thresholds : \A t2 \in Thresholds :
         /\ (t2 <= t /\ ConsensusAt(t).reached) =>
              /\ ConsensusAt(t2).reached
              /\ ConsensusAt(t2).winner = ConsensusAt(t).winner
         /\ (t2 >= t /\ ~ConsensusAt(t).reached) =>
              /\ ~ConsensusAt(t2).reached
              /\ ConsensusAt(t2).winner = None

\* a score map on which the threshold decides: consensus at 1/ThresholdDen,
\* none at 1
C30_Witness ==
  /\ pc = "checked"
  /\ scores # <<>>
  /\ ConsensusAt(1).reached
  /\ ~ConsensusAt(ThresholdDen).reached

====
